---- MODULE Spec2Model ----
(***************************************************************************)
(* A model of ALSCalendarParser (src/unnamed/part_003, the current         *)
(* main.go): the Lambda handler HandleRequest fetches the calendar page,   *)
(* extracts the events, diffs them against the DynamoDB table ALSEvents    *)
(* and mails the changes.                                                  *)
(*                                                                         *)
(* Strings are sequences of one-character tokens.  The tokens stand for    *)
(* the characters the code distinguishes:                                  *)
(*   "SP"  U+0020 space            "TAB"  U+0009 (in \s)                    *)
(*   "NBSP" U+00A0 (in \p{Zs})     "VT"   U+000B (unicode.IsSpace only)     *)
(*   "EN"  U+2013 en dash          "-"    hyphen-minus                      *)
(*   "0".."9" digits, anything else a letter.                              *)
(***************************************************************************)
EXTENDS Integers, Sequences, FiniteSets, TLC

VARIABLES
    store,      \* the DynamoDB table ALSEvents: a set of rows, one per eventKey
    run,        \* run[p]: the state of invocation p of HandleRequest
    active,     \* the invocations that may execute
    input,      \* the argument of a pure function under check
    output,     \* the results of applying it, in order
    owed,       \* history: the followed events put as new that no sent mail
                \* has listed as changed and that are still in the table
    env         \* what surrounds the runs: env.nodes, the largest number of
                \* nodes of a page the site serves; env.times, the instants
                \* at which a run may take now; env.left, the number of
                \* invocations the scheduler has still to trigger (Unlimited
                \* when it never stops); env.followed, the events whose
                \* notification is followed

vars == <<store, run, active, input, output, owed, env>>

----------------------------------------------------------------------------
(* Bounds of the model *)

\* Longest raw text the normalizer is applied to on its own.
MaxTextLen == 7
\* Raw texts over the full alphabet are at most this long.
MaxShortLen == 3

----------------------------------------------------------------------------
(* Text Normalizer: cleanText *)

\* The characters matched by the regular expression [\s\p{Zs}].
RegexSpace == {"SP", "TAB", "NBSP"}

\* The characters unicode.IsSpace accepts, which strings.TrimSpace removes.
UnicodeSpace == {"SP", "TAB", "NBSP", "VT"}

\* re.ReplaceAllString(s, " "): every maximal run of RegexSpace becomes one SP.
RECURSIVE CollapseSpace(_)
CollapseSpace(s) ==
    IF s = <<>> THEN <<>>
    ELSE IF Head(s) \in RegexSpace
         THEN IF Len(s) > 1 /\ s[2] \in RegexSpace
              THEN CollapseSpace(Tail(s))
              ELSE <<"SP">> \o CollapseSpace(Tail(s))
         ELSE <<Head(s)>> \o CollapseSpace(Tail(s))

RECURSIVE TrimLeft(_)
TrimLeft(s) ==
    IF s # <<>> /\ Head(s) \in UnicodeSpace THEN TrimLeft(Tail(s)) ELSE s

RECURSIVE TrimRight(_)
TrimRight(s) ==
    IF s # <<>> /\ s[Len(s)] \in UnicodeSpace
    THEN TrimRight(SubSeq(s, 1, Len(s) - 1))
    ELSE s

\* strings.TrimSpace
TrimSpace(s) == TrimRight(TrimLeft(s))

\* strings.ReplaceAll(s, " – ", " - "): the leftmost non-overlapping matches.
RECURSIVE ReplaceDash(_)
ReplaceDash(s) ==
    IF s = <<>> THEN <<>>
    ELSE IF Len(s) >= 3 /\ SubSeq(s, 1, 3) = <<"SP", "EN", "SP">>
         THEN <<"SP", "-", "SP">> \o ReplaceDash(SubSeq(s, 4, Len(s)))
         ELSE <<Head(s)>> \o ReplaceDash(Tail(s))

cleanText(s) == ReplaceDash(TrimSpace(CollapseSpace(s)))

----------------------------------------------------------------------------
(* Strings of bounded length *)

SeqsUpTo(S, n) == UNION {[1..k -> S] : k \in 0..n}

\* The raw texts the normalizer is checked on.
RawTexts ==
    SeqsUpTo({"SP", "TAB", "EN", "a"}, MaxTextLen)
        \cup SeqsUpTo({"SP", "TAB", "NBSP", "VT", "EN", "-", "a"}, MaxShortLen)

----------------------------------------------------------------------------
(* Calendar dates: time.Parse("20060102", s) and Time.Format("20060102") *)

DigitChars == <<"0", "1", "2", "3", "4", "5", "6", "7", "8", "9">>

isDigit(c) == \E i \in 1..10 : DigitChars[i] = c

DigitVal(c) == (CHOOSE i \in 1..10 : DigitChars[i] = c) - 1

\* The number written by the digit string s.
RECURSIVE atoi(_)
atoi(s) ==
    IF s = <<>> THEN 0
    ELSE 10 * atoi(SubSeq(s, 1, Len(s) - 1)) + DigitVal(s[Len(s)])

isLeap(year) == year % 4 = 0 /\ (year % 100 # 0 \/ year % 400 = 0)

daysIn(month, year) ==
    IF month = 2 THEN (IF isLeap(year) THEN 29 ELSE 28)
    ELSE IF month \in {4, 6, 9, 11} THEN 30 ELSE 31

NoDate == [year |-> 0, month |-> 0, day |-> 0]

\* A parse that takes any day up to 31 in every month.
ParseDateLax(s) ==
    IF \E i \in 1..Len(s) : ~isDigit(s[i])
    THEN [err |-> TRUE, date |-> NoDate]
    ELSE LET y == atoi(SubSeq(s, 1, 4))
             m == atoi(SubSeq(s, 5, 6))
             d == atoi(SubSeq(s, 7, 8))
         IN  IF m < 1 \/ m > 12 \/ d < 1 \/ d > 31
             THEN [err |-> TRUE, date |-> NoDate]
             ELSE [err |-> FALSE,
                   date |-> [year |-> y, month |-> m, day |-> d]]

\* time.Parse("20060102", s) for an s of 8 characters: a 4-digit year, a
\* 2-digit month in 1..12 and a 2-digit day that exists in that month.
ParseDate(s) ==
    IF \E i \in 1..Len(s) : ~isDigit(s[i])
    THEN [err |-> TRUE, date |-> NoDate]
    ELSE LET y == atoi(SubSeq(s, 1, 4))
             m == atoi(SubSeq(s, 5, 6))
             d == atoi(SubSeq(s, 7, 8))
         IN  IF m < 1 \/ m > 12 \/ d < 1 \/ d > daysIn(m, y)
             THEN [err |-> TRUE, date |-> NoDate]
             ELSE [err |-> FALSE,
                   date |-> [year |-> y, month |-> m, day |-> d]]

\* n written with exactly w decimal digits (%0wd).
RECURSIVE Digits(_, _)
Digits(n, w) ==
    IF w = 0 THEN <<>>
    ELSE Digits(n \div 10, w - 1) \o <<DigitChars[(n % 10) + 1]>>

\* date.Format("20060102")
FormatDate(date) ==
    Digits(date.year, 4) \o Digits(date.month, 2) \o Digits(date.day, 2)

SecondsPerDay == 86400

\* Days from 1970-01-01 to the date (proleptic Gregorian calendar).
DaysFromCivil(date) ==
    LET y   == IF date.month <= 2 THEN date.year - 1 ELSE date.year
        era == (IF y >= 0 THEN y ELSE y - 399) \div 400
        yoe == y - era * 400
        mp  == IF date.month > 2 THEN date.month - 3 ELSE date.month + 9
        doy == (153 * mp + 2) \div 5 + date.day - 1
        doe == yoe * 365 + yoe \div 4 - yoe \div 100 + doy
    IN  era * 146097 + doe - 719468

\* An EventDate that carries the last second of its date.
InstantEndOfDay(date) == DaysFromCivil(date) * SecondsPerDay + SecondsPerDay - 1

\* The instant of an Event's EventDate: midnight UTC of its date, in seconds.
Instant(date) == DaysFromCivil(date) * SecondsPerDay

----------------------------------------------------------------------------
(* Extractor: extractEvents over a parsed html.Node tree *)

TextNode(data) ==
    [type |-> "text", data |-> data, attr |-> <<>>, kids |-> <<>>]

ElementNode(attr, kids) ==
    [type |-> "element", data |-> <<>>, attr |-> attr, kids |-> kids]

DocumentNode(kids) ==
    [type |-> "document", data |-> <<>>, attr |-> <<>>, kids |-> kids]

Attr(key, val) == [key |-> key, val |-> val]

EventsClass == <<"e", "v", "e", "n", "t", "s">>

\* getTextContent: the text below n, depth first, in document order.
RECURSIVE getTextContent(_)
RECURSIVE TextOfKids(_)
getTextContent(n) ==
    IF n.type = "text" THEN n.data ELSE TextOfKids(n.kids)
TextOfKids(kids) ==
    IF kids = <<>> THEN <<>>
    ELSE getTextContent(Head(kids)) \o TextOfKids(Tail(kids))

\* strings.Split(s, "-")
RECURSIVE Split(_)
Split(s) ==
    IF \A i \in 1..Len(s) : s[i] # "-" THEN <<s>>
    ELSE LET k == CHOOSE i \in 1..Len(s) :
                      s[i] = "-" /\ \A j \in 1..(i - 1) : s[j] # "-"
         IN  <<SubSeq(s, 1, k - 1)>> \o Split(SubSeq(s, k + 1, Len(s)))

\* The loop over n.Attr: the last aria-labelledby value wins.
RECURSIVE AriaLabel(_)
AriaLabel(attr) ==
    IF attr = <<>> THEN <<>>
    ELSE IF attr[Len(attr)].key = "aria-labelledby"
         THEN attr[Len(attr)].val
         ELSE AriaLabel(SubSeq(attr, 1, Len(attr) - 1))

HasEventsClass(attr) ==
    \E i \in 1..Len(attr) : attr[i].key = "class" /\ attr[i].val = EventsClass

\* The Events one node yields by itself (none or one).
EventOfNode(n) ==
    IF n.type = "element" /\ HasEventsClass(n.attr) /\ AriaLabel(n.attr) # <<>>
    THEN LET parts   == Split(AriaLabel(n.attr))
             dateStr == parts[Len(parts)]
         IN  IF Len(parts) > 1 /\ Len(dateStr) = 8 /\ ~ParseDate(dateStr).err
             THEN <<[date |-> ParseDate(dateStr).date,
                     desc |-> cleanText(getTextContent(n))]>>
             ELSE <<>>
    ELSE <<>>

\* traverse: the node itself, then its children, first to last.
RECURSIVE traverse(_)
RECURSIVE TraverseKids(_)
\* A traversal that handles a node after its children.
traversePostOrder(n) == TraverseKids(n.kids) \o EventOfNode(n)

traverse(n) == EventOfNode(n) \o TraverseKids(n.kids)
TraverseKids(kids) ==
    IF kids = <<>> THEN <<>>
    ELSE traverse(Head(kids)) \o TraverseKids(Tail(kids))

extractEvents(doc) == traverse(doc)

----------------------------------------------------------------------------
(* Content keys: generateChecksum and generateEventKey *)

HexChars == <<"0", "1", "2", "3", "4", "5", "6", "7",
              "8", "9", "a", "b", "c", "d", "e", "f">>

\* n written with exactly w hexadecimal digits (%x, zero padded).
RECURSIVE Hex(_, _)
Hex(n, w) ==
    IF w = 0 THEN <<>>
    ELSE Hex(n \div 16, w - 1) \o <<HexChars[(n % 16) + 1]>>

\* The byte value a character contributes to the digest.
Code(c) ==
    CASE c = "a" -> 1
      [] c = "b" -> 2
      [] c = "c" -> 5
      [] c = "SP" -> 3
      [] c = "-" -> 7
      [] OTHER -> 11

\* The digest of a byte string: a polynomial mix of its bytes, standing for
\* SHA-256.  It is a function of the bytes alone.
RECURSIVE Mix(_)
Mix(bytes) ==
    IF bytes = <<>> THEN 0
    ELSE (31 * Mix(SubSeq(bytes, 1, Len(bytes) - 1))
              + Code(bytes[Len(bytes)])) % 65536

\* How many values the first 8 hexadecimal digits of a digest take.  The real
\* prefix takes 2^32 values, fewer than there are descriptions; so does this.
PrefixValues == 2

\* generateChecksum: the digest in hexadecimal.  The first 8 digits take
\* PrefixValues values; the whole digest separates the model's descriptions.
generateChecksum(description) ==
    Hex(Mix(description) % PrefixValues, 8) \o Hex(Mix(description), 8)

\* A key made of the checksum prefix alone.
generateEventKeyNoDate(date, checksum) == SubSeq(checksum, 1, 8)

\* generateEventKey: date.Format("20060102") + "_" + checksum[:8]
generateEventKey(date, checksum) ==
    FormatDate(date) \o <<"_">> \o SubSeq(checksum, 1, 8)

KeyOf(event) == generateEventKey(event.date, generateChecksum(event.desc))

\* The DynamoDBEvent that processEvents builds for an added event.
DynamoDBEvent(event) ==
    [eventKey      |-> KeyOf(event),
     eventDate     |-> event.date,
     eventDesc     |-> event.desc,
     eventChecksum |-> generateChecksum(event.desc)]

----------------------------------------------------------------------------
(* The table ALSEvents: a set of rows with distinct eventKey *)

Keys(rows) == {r.eventKey : r \in rows}

\* PutItem: the row replaces the one stored under its key, if any.
PutItem(rows, row) == {r \in rows : r.eventKey # row.eventKey} \cup {row}

\* DeleteItem
DeleteItem(rows, key) == {r \in rows : r.eventKey # key}

CharRank(c) ==
    IF c = "_" THEN 0 ELSE CHOOSE i \in 1..16 : HexChars[i] = c

RECURSIVE LexLess(_, _)
LexLess(s, t) ==
    IF t = <<>> THEN FALSE
    ELSE IF s = <<>> THEN TRUE
    ELSE IF Head(s) = Head(t) THEN LexLess(Tail(s), Tail(t))
    ELSE CharRank(Head(s)) < CharRank(Head(t))

\* The order in which a Scan walks the table: a fixed order of the keys.
RECURSIVE ScanOrder(_)
ScanOrder(rows) ==
    IF rows = {} THEN <<>>
    ELSE LET first == CHOOSE r \in rows :
                          \A q \in rows \ {r} : LexLess(r.eventKey, q.eventKey)
         IN  <<first>> \o ScanOrder(rows \ {first})

\* How many rows one Scan call returns at most (DynamoDB returns at most
\* 1 MB per call and a LastEvaluatedKey to continue from).
ScanPageLimit == 2

\* client.Scan(ctx, input): the first page of the table.
ScanPage(rows) ==
    LET all == ScanOrder(rows)
    IN  SubSeq(all, 1, IF Len(all) < ScanPageLimit THEN Len(all)
                       ELSE ScanPageLimit)

\* getAllEvents: the Items of one Scan call; LastEvaluatedKey is not read.
getAllEvents(rows) == ScanPage(rows)

----------------------------------------------------------------------------
(* The pages the calendar URL may serve *)

\* How many candidate nodes a served page holds at most.
MaxNodes == 3

Date1 == <<"2", "0", "2", "5", "0", "3", "1", "0">>
\* 60 days after Date1
Date2 == <<"2", "0", "2", "5", "0", "5", "0", "9">>
\* 30 days after Date1
Date3 == <<"2", "0", "2", "5", "0", "4", "0", "9">>
\* no calendar date
BadDate == <<"2", "0", "2", "5", "0", "2", "3", "0">>

Label(dateStr) == <<"e", "v", "-">> \o dateStr

\* <div class="events" aria-labelledby="ev-DATE">TEXT</div>
EventDiv(dateStr, text) ==
    ElementNode(<<Attr("class", EventsClass),
                  Attr("aria-labelledby", Label(dateStr))>>,
                <<TextNode(text)>>)

\* The candidate nodes of the served pages.  "a" and "c" are two descriptions
\* whose digests share their first 8 digits; the node with BadDate yields
\* no event.
PageNodes ==
    {EventDiv(Date1, <<"a">>), EventDiv(Date1, <<"SP", "b", "TAB">>),
     EventDiv(Date1, <<"c">>), EventDiv(Date2, <<"a">>),
     EventDiv(Date3, <<"a">>), EventDiv(BadDate, <<"a">>)}

Pages == {DocumentNode(kids) : kids \in SeqsUpTo(PageNodes, MaxNodes)}

\* What a response with an error status carries: a page without events.
ErrorPage == DocumentNode(<<>>)

\* time.Now() when processEvents takes it, in seconds since 1970: the
\* midnight that starts Date1, one second before it, one second after it,
\* and the middle of that day.
NowTimes ==
    {Instant(ParseDate(Date1).date) + d : d \in {-1, 0, 1, SecondsPerDay \div 2}}

----------------------------------------------------------------------------
(* One invocation of HandleRequest *)

Procs == {1, 2}

EmptyReport ==
    [DeletedCount |-> 0, DeletedEvents |-> <<>>, AddedCount |-> 0,
     AddedEvents |-> <<>>, UpcomingEvents |-> <<>>]

IdleRun ==
    [pc         |-> "idle",     \* where the invocation stands
     status     |-> 0,          \* resp.StatusCode of the fetch
     events     |-> <<>>,       \* what extractEvents returned
     existing   |-> <<>>,       \* existingEvents
     pre        |-> {},         \* the table when the scan was issued
     now        |-> 0,
     i          |-> 1,          \* next index of the loop over events
     j          |-> 1,          \* next index of the loop over existingEvents
     currentMap |-> {},
     report     |-> EmptyReport,
     ops        |-> <<>>,       \* the puts and deletes applied, in order
     friday     |-> FALSE,      \* time.Now().Weekday() == time.Friday
     mail       |-> "none",     \* sendEmail: none (not called), sent,
                                \* failed (smtp.SendMail returned an error),
                                \* nocreds (getSmtpCredentials ended the process)
     body       |-> <<>>,       \* the sections of the mail sent
     response   |-> 0,          \* Response.StatusCode, 0: none
     err        |-> "none",     \* the phase that failed
     prior      |-> "none",     \* how the invocation before ended, if it
                                \* diffed the same events: done, mail, crashed
     skipped    |-> FALSE]      \* the page had a candidate node that
                                \* extractEvents passed over

Finished(r) == r.pc \in {"done", "failed", "crashed"}

\* return createErrorResponse(...): the Response with status 500.
Fail(r, phase) == [r EXCEPT !.pc = "failed", !.response = 500, !.err = phase]

\* A store error that is recorded while the loop goes on.
AbortContinue(r, phase) == [r EXCEPT !.err = phase]

\* processEvents returns nil and an error, and HandleRequest the error
\* response (lines 111, 143, 163 and 267-269).
Abort(r, phase) == [Fail(r, phase) EXCEPT !.report = EmptyReport]

\* Whether processEvents returned a report in invocation r.
DiffOk(r) == r.pc \in {"notify", "done", "crashed"} \/ r.err = "mail"

\* What the pages yield: extractEvents(body) for every page served.
PageEvents == {extractEvents(page) : page \in Pages}

\* What extractEvents makes of each page served: the events, and whether a
\* candidate node yielded none.
PageResults ==
    {[events  |-> extractEvents(page),
      skipped |-> Len(extractEvents(page)) < Len(page.kids)] : page \in Pages}

\* The same results by the largest number of nodes of the pages served.
PageResultsBySize ==
    [n \in 0..MaxNodes |->
        {[events  |-> extractEvents(page),
          skipped |-> Len(extractEvents(page)) < Len(page.kids)] :
            page \in {q \in Pages : Len(q.kids) <= n}}]

\* An extraction that reports a node it cannot use as an error.
ExtractedStrict(old, code, result) ==
    IF result.skipped
    THEN [Fail(IdleRun, "parse") EXCEPT !.skipped = TRUE]
    ELSE [IdleRun EXCEPT !.pc = "scan", !.status = code,
                         !.events = result.events]

\* The invocation after extractEvents returned result.events.  old is what
\* is left of the invocation before.
Extracted(old, code, result) ==
    [IdleRun EXCEPT !.pc = "scan", !.status = code, !.events = result.events,
                    !.skipped = result.skipped,
                    !.prior = IF old.events = result.events THEN old.prior
                              ELSE "none"]

\* env.left of a scheduler that goes on triggering invocations for ever.
Unlimited == -1

\* HandleRequest up to the call of processEvents: load the configuration,
\* GET the page, read the body, extract the events.  The status of the
\* response is not looked at.
FetchAndExtract(p) ==
    /\ p \in active
    /\ run[p].pc = "idle"
    /\ env.left # 0
    /\ env' = IF env.left = Unlimited THEN env ELSE [env EXCEPT !.left = @ - 1]
    /\ \/ \E phase \in {"config", "fetch", "read", "parse"} :
              run' = [run EXCEPT ![p] = Fail(IdleRun, phase)]
       \/ \E result \in PageResultsBySize[env.nodes] :
              run' = [run EXCEPT ![p] = Extracted(run[p], 200, result)]
       \/ \E code \in {404, 503} :
              run' = [run EXCEPT ![p] =
                          Extracted(run[p], code,
                                    [events  |-> extractEvents(ErrorPage),
                                     skipped |-> FALSE])]
    /\ UNCHANGED <<store, active, input, output, owed>>

\* The invocation is over: the Response went to the Lambda runtime, or the
\* process exited.  The scheduler starts the next one from here; what is
\* kept is history: the events diffed and how the invocation ended.
Return(p) ==
    /\ p \in active
    /\ Finished(run[p])
    /\ run' = [run EXCEPT ![p] =
           IF DiffOk(run[p])
           THEN [IdleRun EXCEPT
                    !.events = run[p].events,
                    !.prior = IF run[p].pc = "failed" THEN run[p].err
                              ELSE run[p].pc]
           ELSE IdleRun]
    /\ UNCHANGED <<store, active, input, output, owed, env>>

\* Deletes before puts: the loop over existingEvents runs first.
PhaseAfterDeleteFirst(phase) ==
    CASE phase = "scan" -> "dels"
      [] phase = "dels" -> "puts"
      [] phase = "puts" -> "notify"

\* The order of processEvents: the scan, the loop over events with its puts,
\* the loop over existingEvents with its deletes, the return of the report.
PhaseAfter(phase) ==
    CASE phase = "scan" -> "puts"
      [] phase = "puts" -> "dels"
      [] phase = "dels" -> "notify"

\* processEvents, lines 102-122: getAllEvents, existingMap, now.
Scan(p) ==
    /\ p \in active
    /\ run[p].pc = "scan"
    /\ \/ run' = [run EXCEPT ![p] = [Abort(@, "scan") EXCEPT !.pre = store]]
       \/ \E t \in env.times :
              run' = [run EXCEPT ![p].pc = PhaseAfter("scan"),
                                 ![p].existing = getAllEvents(store),
                                 ![p].pre = store,
                                 ![p].now = t]
    /\ UNCHANGED <<store, active, input, output, owed, env>>

\* The window of upcoming events: now.AddDate(0, 0, 60)
UpcomingDays == 60

cutoff(now) == now + UpcomingDays * SecondsPerDay

\* A window that takes in both of its ends.
IsUpcomingInclusive(event, now) ==
    Instant(event.date) >= now /\ Instant(event.date) <= cutoff(now)

\* event.EventDate.After(now) && event.EventDate.Before(cutoff)
IsUpcoming(event, now) ==
    Instant(event.date) > now /\ Instant(event.date) < cutoff(now)

\* A loop body that puts a new event in front of the added ones.
AfterEventPrepend(report, event, exists, now) ==
    [report EXCEPT
        !.AddedEvents = IF exists THEN @ ELSE <<event>> \o @,
        !.UpcomingEvents = IF IsUpcoming(event, now) THEN Append(@, event) ELSE @]

\* The report after the body of the loop over events has run for event,
\* given whether its key is in existingMap.
AfterEvent(report, event, exists, now) ==
    [report EXCEPT
        !.AddedEvents = IF exists THEN @ ELSE Append(@, event),
        !.UpcomingEvents = IF IsUpcoming(event, now) THEN Append(@, event) ELSE @]

\* A lookup that finds no key, so that every event is put.
inNoMap(eventKey, existing) == FALSE

\* _, exists := existingMap[eventKey], with existingMap built from the scan.
inExistingMap(eventKey, existing) ==
    eventKey \in Keys({existing[k] : k \in 1..Len(existing)})

\* sort.Slice(report.UpcomingEvents, ... Before ...): the insertion sort Go
\* runs on a short slice.
RECURSIVE Insert(_, _)
Insert(sorted, event) ==
    IF sorted = <<>> THEN <<event>>
    ELSE IF Instant(event.date) < Instant(sorted[Len(sorted)].date)
         THEN Insert(SubSeq(sorted, 1, Len(sorted) - 1), event)
                  \o <<sorted[Len(sorted)]>>
         ELSE Append(sorted, event)

RECURSIVE SortByDate(_)
SortByDate(evs) ==
    IF evs = <<>> THEN <<>>
    ELSE Insert(SortByDate(SubSeq(evs, 1, Len(evs) - 1)), evs[Len(evs)])

\* The counts without the sort.
FinishReportUnsorted(report) ==
    [report EXCEPT !.DeletedCount = Len(report.DeletedEvents),
                   !.AddedCount = Len(report.AddedEvents)]

\* processEvents, lines 168-176
FinishReport(report) ==
    [report EXCEPT !.UpcomingEvents = SortByDate(@),
                   !.DeletedCount = Len(report.DeletedEvents),
                   !.AddedCount = Len(report.AddedEvents)]

\* Invocation r at the end of a loop: on to the next loop, or to the sort,
\* the counts and the return of the report.
Proceed(r) ==
    [r EXCEPT !.pc = PhaseAfter(r.pc),
              !.report = IF PhaseAfter(r.pc) = "notify" THEN FinishReport(@)
                         ELSE @]

\* A loop body that enters only the keys it puts.
markCurrentIfNew(currentMap, eventKey, exists) ==
    IF exists THEN currentMap ELSE currentMap \cup {eventKey}

\* currentMap[eventKey] = true, for every extracted event.
markCurrent(currentMap, eventKey, exists) == currentMap \cup {eventKey}

\* processEvents, lines 126-151: one iteration of the loop over events, or
\* its end.
PutLoop(p) ==
    LET r == run[p] IN
    /\ p \in active
    /\ r.pc = "puts"
    /\ IF r.i > Len(r.events)
       THEN /\ run' = [run EXCEPT ![p] = Proceed(r)]
            /\ UNCHANGED <<store, owed>>
       ELSE LET event  == r.events[r.i]
                exists == inExistingMap(KeyOf(event), r.existing)
                next   == [r EXCEPT !.i = @ + 1,
                                    !.currentMap = markCurrent(@, KeyOf(event), exists),
                                    !.report = AfterEvent(@, event, exists, r.now)]
            IN  IF exists
                THEN /\ run' = [run EXCEPT ![p] = next]
                     /\ UNCHANGED <<store, owed>>
                ELSE \/ /\ store' = PutItem(store, DynamoDBEvent(event))
                        /\ owed' = {e \in owed : KeyOf(e) # KeyOf(event)}
                                       \cup ({event} \cap env.followed)
                        /\ run' = [run EXCEPT ![p] =
                               [next EXCEPT !.ops =
                                   Append(@, <<"put", DynamoDBEvent(event)>>)]]
                     \/ /\ run' = [run EXCEPT ![p] = Abort(r, "put")]
                        /\ UNCHANGED <<store, owed>>
    /\ UNCHANGED <<active, input, output, env>>

\* processEvents, lines 154-176: one iteration of the loop over
\* existingEvents, or its end and the return of the report.
DelLoop(p) ==
    LET r == run[p] IN
    /\ p \in active
    /\ r.pc = "dels"
    /\ IF r.j > Len(r.existing)
       THEN /\ run' = [run EXCEPT ![p] = Proceed(r)]
            /\ UNCHANGED <<store, owed>>
       ELSE LET row  == r.existing[r.j]
                next == [r EXCEPT !.j = @ + 1]
            IN  IF row.eventKey \in r.currentMap
                THEN /\ run' = [run EXCEPT ![p] = next]
                     /\ UNCHANGED <<store, owed>>
                ELSE \/ /\ store' = DeleteItem(store, row.eventKey)
                        /\ owed' = {e \in owed : KeyOf(e) # row.eventKey}
                        /\ run' = [run EXCEPT ![p] =
                               [next EXCEPT
                                   !.report.DeletedEvents =
                                       Append(@, [date |-> row.eventDate,
                                                  desc |-> row.eventDesc]),
                                   !.ops = Append(@, <<"delete", row.eventKey>>)]]
                     \/ /\ run' = [run EXCEPT ![p] = Abort(r, "delete")]
                        /\ UNCHANGED <<store, owed>>
    /\ UNCHANGED <<active, input, output, env>>

\* event.EventDate.Format("02.01.2006")
FormatDayMonthYear(date) ==
    Digits(date.day, 2) \o <<".">> \o Digits(date.month, 2) \o <<".">>
        \o Digits(date.year, 4)

\* fmt.Sprintf("<li><b>%s</b><br />%s<br /><br /></li>", ...): one list item,
\* as the text in bold and the text after it.
ListItem(event) ==
    [bold |-> FormatDayMonthYear(event.date), text |-> event.desc]

\* The list items of a slice of events, in the order of the slice.
RECURSIVE ListItems(_)
ListItems(evs) ==
    IF evs = <<>> THEN <<>>
    ELSE <<ListItem(Head(evs))>> \o ListItems(Tail(evs))

\* listTemplate with its title and its items filled in.  The titles stand
\* for "Geaenderte Kalendereintraege" and "Eintraege fuer die naechste 60
\* Tage".
Section(title, items) == [title |-> title, items |-> items]

\* A body that shows the deleted events among the changed ones.
createBodyWithDeleted(report) ==
    LET changed  == Section("changed", ListItems(report.AddedEvents
                                                     \o report.DeletedEvents))
        upcoming == Section("upcoming", ListItems(report.UpcomingEvents))
    IN  IF changed.items # <<>> THEN <<changed, upcoming>> ELSE <<upcoming>>

\* createBody: the sections put in place of {list_placeholder}, in order.
createBody(report) ==
    LET changedEventsList     == ListItems(report.AddedEvents)
        changedEventsSection  == IF report.AddedCount > 0
                                 THEN <<Section("changed", changedEventsList)>>
                                 ELSE <<>>
        upcomingEventsSection == <<Section("upcoming",
                                           ListItems(report.UpcomingEvents))>>
    IN  IF changedEventsList # <<>>
        THEN changedEventsSection \o upcomingEventsSection
        ELSE upcomingEventsSection

\* A trigger that also fires on deletions.
ShouldNotifyAnyChange(report, friday) ==
    report.AddedCount > 0 \/ report.DeletedCount > 0 \/ friday

\* The condition under which HandleRequest mails the report.
ShouldNotify(report, friday) == report.AddedCount > 0 \/ friday

\* The owed events whose list item is in the section of changed entries of
\* body.
Listed(body) ==
    {e \in owed : \E k \in 1..Len(body) :
                      /\ body[k].title = "changed"
                      /\ ListItem(e) \in {body[k].items[m] :
                                              m \in 1..Len(body[k].items)}}

\* HandleRequest, lines 271-297: marshal the report, mail it if there is an
\* addition or it is Friday, respond.
Notify(p) ==
    LET r == run[p] IN
    /\ p \in active
    /\ r.pc = "notify"
    /\ \E friday \in BOOLEAN :
         IF ShouldNotify(r.report, friday)
         THEN \/ /\ run' = [run EXCEPT ![p] =
                        [r EXCEPT !.pc = "done", !.friday = friday,
                                  !.response = 200, !.mail = "sent",
                                  !.body = createBody(r.report)]]
                 /\ owed' = owed \ Listed(createBody(r.report))
              \/ /\ run' = [run EXCEPT ![p] =
                        [Fail(r, "mail") EXCEPT !.friday = friday,
                                                !.mail = "failed"]]
                 /\ UNCHANGED owed
              \/ /\ run' = [run EXCEPT ![p] =
                        [r EXCEPT !.pc = "crashed", !.friday = friday,
                                  !.mail = "nocreds", !.err = "credentials"]]
                 /\ UNCHANGED owed
         ELSE /\ run' = [run EXCEPT ![p] =
                        [r EXCEPT !.pc = "done", !.friday = friday,
                                  !.response = 200]]
              /\ UNCHANGED owed
    /\ UNCHANGED <<store, active, input, output, env>>

----------------------------------------------------------------------------
(* The scheduled runs: one invocation at a time, on an empty table at first *)

Init ==
    /\ store = {}
    /\ run = [p \in Procs |-> IdleRun]
    /\ active = {1}
    /\ input = <<>>
    /\ output = <<>>
    /\ owed = {}
    /\ env = [nodes |-> MaxNodes, times |-> NowTimes, left |-> Unlimited,
              followed |-> {}]

Next ==
    \/ \E p \in Procs : FetchAndExtract(p)
    \/ \E p \in Procs : Scan(p)
    \/ \E p \in Procs : PutLoop(p)
    \/ \E p \in Procs : DelLoop(p)
    \/ \E p \in Procs : Notify(p)
    \/ \E p \in Procs : Return(p)

Spec == Init /\ [][Next]_vars

----------------------------------------------------------------------------
(* The normalizer on its own: cleanText applied to a raw text, then to its *)
(* own result                                                              *)

Idle == [p \in Procs |-> IdleRun]

\* No page and nothing followed: the surroundings of a function on its own.
NoEnv == [nodes |-> 0, times |-> {}, left |-> 0, followed |-> {}]

InitClean ==
    /\ store = {}
    /\ run = Idle
    /\ active = {}
    /\ input \in RawTexts
    /\ output = <<>>
    /\ owed = {}
    /\ env = NoEnv

ApplyCleanText ==
    /\ Len(output) < 2
    /\ output' = Append(output, cleanText(IF output = <<>> THEN input
                                          ELSE output[Len(output)]))
    /\ UNCHANGED <<store, run, active, input, owed, env>>

NextClean == ApplyCleanText

SpecClean == InitClean /\ [][NextClean]_vars

----------------------------------------------------------------------------
(* The extractor on its own: extractEvents applied to a parsed document *)

\* How many nodes the document has below its root, at most.
MaxTreeNodes == 2

\* <div class=CLASS aria-labelledby=LABEL>TEXT KIDS</div>; no class
\* attribute when class is empty, no aria-labelledby attribute when label is.
Div(class, label, text, kids) ==
    ElementNode((IF class = <<>> THEN <<>> ELSE <<Attr("class", class)>>)
                    \o (IF label = <<>> THEN <<>>
                        ELSE <<Attr("aria-labelledby", label)>>),
                <<TextNode(text)>> \o kids)

\* class="events", class="events x" and no class
TreeClasses == {EventsClass, EventsClass \o <<"SP", "x">>, <<>>}

\* ev-20250310, ev-20250230, ev-20240229, 20250310, ev-a-20250310,
\* ev-2025031, ev-202503100, ev-2025031a, ev-20250310- and no label
TreeLabels ==
    {Label(Date1), Label(BadDate),
     Label(<<"2", "0", "2", "4", "0", "2", "2", "9">>),
     Date1, <<"e", "v", "-", "a", "-">> \o Date1,
     Label(SubSeq(Date1, 1, 7)), Label(Date1 \o <<"0">>),
     Label(SubSeq(Date1, 1, 7) \o <<"a">>), Label(Date1) \o <<"-">>, <<>>}

TreeTexts == {<<"a">>, <<"SP">>}

TreeLeaves ==
    {Div(c, l, t, <<>>) : c \in TreeClasses, l \in TreeLabels, t \in TreeTexts}

\* The documents: up to MaxTreeNodes nodes side by side, or one in another.
Trees ==
    {DocumentNode(kids) : kids \in SeqsUpTo(TreeLeaves, MaxTreeNodes)}
        \cup {DocumentNode(<<Div(c, l, t, <<k>>)>>) :
                  c \in TreeClasses, l \in {Label(Date2), <<>>},
                  t \in TreeTexts, k \in TreeLeaves}

InitExtract ==
    /\ store = {}
    /\ run = Idle
    /\ active = {}
    /\ input \in Trees
    /\ output = <<>>
    /\ owed = {}
    /\ env = NoEnv

ApplyExtractEvents ==
    /\ output = <<>>
    /\ output' = <<extractEvents(input)>>
    /\ UNCHANGED <<store, run, active, input, owed, env>>

NextExtract == ApplyExtractEvents

SpecExtract == InitExtract /\ [][NextExtract]_vars

----------------------------------------------------------------------------
(* The key on its own: checksum and key computed for two events *)

\* The events whose keys are compared: three dates, five descriptions.
KeyEvents ==
    {[date |-> ParseDate(d).date, desc |-> t] :
         d \in {Date1, Date2, Date3},
         t \in {<<"a">>, <<"b">>, <<"c">>, <<"a", "SP", "b">>, <<>>}}

InitKey ==
    /\ store = {}
    /\ run = Idle
    /\ active = {}
    /\ input \in KeyEvents \X KeyEvents
    /\ output = <<>>
    /\ owed = {}
    /\ env = NoEnv

\* The two lines that open the loop body of processEvents, for both events.
ApplyGenerateEventKey ==
    /\ output = <<>>
    /\ output' = [k \in 1..2 |->
                      generateEventKey(input[k].date,
                                       generateChecksum(input[k].desc))]
    /\ UNCHANGED <<store, run, active, input, owed, env>>

NextKey == ApplyGenerateEventKey

SpecKey == InitKey /\ [][NextKey]_vars

----------------------------------------------------------------------------
(* The scheduled runs for ever: the scheduler keeps triggering invocations *)
(* and every invocation runs to its end; the notification of every event   *)
(* of a one-node page is followed                                          *)

MaxLiveNodes == 1

\* The events of the pages served.
Followed ==
    UNION {{result.events[k] : k \in 1..Len(result.events)} :
               result \in PageResultsBySize[MaxLiveNodes]}

InitLive ==
    /\ store = {}
    /\ run = Idle
    /\ active = {1}
    /\ input = <<>>
    /\ output = <<>>
    /\ owed = {}
    /\ env = [nodes |-> MaxLiveNodes, times |-> NowTimes, left |-> Unlimited,
              followed |-> Followed]

SpecLive == InitLive /\ [][Next]_vars /\ WF_vars(Next)

----------------------------------------------------------------------------
(* Overlapping runs: two invocations at a time on the same table, the site *)
(* serving pages of at most one node, the scheduler triggering a few       *)
(* invocations, all of them at the midnight that starts Date1              *)

MaxOverlapNodes == 1

MaxOverlapRuns == 3

InitOverlap ==
    /\ store = {}
    /\ run = Idle
    /\ active = Procs
    /\ input = <<>>
    /\ output = <<>>
    /\ owed = {}
    /\ env = [nodes |-> MaxOverlapNodes,
              times |-> {Instant(ParseDate(Date1).date)},
              left |-> MaxOverlapRuns, followed |-> {}]

SpecOverlap == InitOverlap /\ [][Next]_vars

----------------------------------------------------------------------------
(* Properties *)

SeqToSet(q) == {q[k] : k \in 1..Len(q)}

\* The keys derived from a sequence of events.
EventKeys(events) == {KeyOf(e) : e \in SeqToSet(events)}

\* processEvents has returned its report in invocation p and nothing has
\* run since.
Diffed(p) == p \in active /\ run[p].pc = "notify"

\* C1: after one processEvents run in which no store operation fails, the
\* keys in the table are exactly the keys derived from the extracted events.
C1_Convergence ==
    \A p \in Procs :
        Diffed(p) => Keys(store) = EventKeys(run[p].events)

\* C2: a run on the same extracted events as the run before it, both without
\* a store failure, reports no added and no deleted event and issues no put
\* and no delete.
C2_IdempotentRuns ==
    \A p \in Procs :
        Diffed(p) /\ run[p].prior # "none"
            => /\ run[p].report.AddedCount = 0
               /\ run[p].report.DeletedCount = 0
               /\ run[p].ops = <<>>

\* The fetch of invocation r failed: no response came, the body could not be
\* read, or the response has a status outside 200..299.
FetchFailed(r) ==
    \/ r.err \in {"fetch", "read"}
    \/ r.status # 0 /\ r.status \notin 200..299

\* C3: a failed fetch, a status outside 2xx included, ends the run with a
\* failure result and without a put or a delete.
C3_FetchFailureIsFatal ==
    \A p \in Procs :
        FetchFailed(run[p]) /\ Finished(run[p])
            => run[p].response = 500 /\ run[p].ops = <<>>

\* C4: after a successful processEvents run, AddedCount is the number of
\* keys in the table that were not in it before the run, and DeletedCount
\* the number of keys that were in it before and are not in it now.
C4_CountsAreKeyChanges ==
    \A p \in Procs :
        Diffed(p)
            => /\ run[p].report.AddedCount
                      = Cardinality(Keys(store) \ Keys(run[p].pre))
               /\ run[p].report.DeletedCount
                      = Cardinality(Keys(run[p].pre) \ Keys(store))

\* The Event a stored row was made from.
EventOfRow(row) == [date |-> row.eventDate, desc |-> row.eventDesc]

\* C5: when the table holds a row for date d with description x and the
\* extraction has an event for d with another description y, not stored yet,
\* and no event (d, x), the run deletes the old key, puts the new row under
\* another key and reports the new event as added and the old one as
\* deleted (one of each when this is all there is); no put of the run goes
\* to a key that was stored, and the change is never reported as no change.
C5_ContentChangeIsAddDelete ==
    \A p \in Procs :
        Diffed(p) =>
            \A old \in run[p].pre, new \in SeqToSet(run[p].events) :
                /\ old.eventDate = new.date /\ old.eventDesc # new.desc
                /\ new \notin {EventOfRow(row) : row \in run[p].pre}
                /\ EventOfRow(old) \notin SeqToSet(run[p].events)
                => /\ KeyOf(new) # old.eventKey
                   /\ <<"put", DynamoDBEvent(new)>> \in SeqToSet(run[p].ops)
                   /\ <<"delete", old.eventKey>> \in SeqToSet(run[p].ops)
                   /\ \A o \in SeqToSet(run[p].ops) :
                          o[1] = "put" => o[2].eventKey \notin Keys(run[p].pre)
                   /\ new \in SeqToSet(run[p].report.AddedEvents)
                   /\ EventOfRow(old) \in SeqToSet(run[p].report.DeletedEvents)
                   /\ DynamoDBEvent(new) \in store /\ old \notin store
                   /\ run[p].pre = {old} /\ run[p].events = <<new>>
                          => /\ run[p].report.AddedCount = 1
                             /\ run[p].report.DeletedCount = 1

RECURSIVE Replay(_, _)
Replay(rows, ops) ==
    IF ops = <<>> THEN rows
    ELSE LET o == Head(ops)
             k == IF o[1] = "put" THEN o[2].eventKey ELSE o[2]
         IN  Replay({r \in rows : r.eventKey # k}
                        \cup (IF o[1] = "put" THEN {o[2]} ELSE {}),
                    Tail(ops))

\* The puts of the first n events: one for each event whose key is not among
\* the scanned keys, in order.
RECURSIVE PutsOf(_, _, _)
PutsOf(events, n, scanned) ==
    IF n = 0 THEN <<>>
    ELSE PutsOf(events, n - 1, scanned)
             \o (IF KeyOf(events[n]) \in scanned THEN <<>>
                 ELSE <<<<"put", DynamoDBEvent(events[n])>>>>)

\* The deletes of the first m scanned rows: one for each row whose key is
\* not derived from an extracted event, in order.
RECURSIVE DeletesOf(_, _, _)
DeletesOf(existing, m, current) ==
    IF m = 0 THEN <<>>
    ELSE DeletesOf(existing, m - 1, current)
             \o (IF existing[m].eventKey \in current THEN <<>>
                 ELSE <<<<"delete", existing[m].eventKey>>>>)

ScannedKeys(r) == Keys(SeqToSet(r.existing))

\* C7: when the scan, a put or a delete fails, the run stops at that call:
\* processEvents returns no report, the handler answers 500 and sends no
\* mail, the puts and deletes made before the failing call are exactly those
\* of the loops up to it, and the table holds their effect (nothing is
\* rolled back, nothing more is written).
C7_StoreFailurePolicy ==
    \A p \in Procs :
        LET r == run[p] IN
        r.err \in {"scan", "put", "delete"}
            => /\ r.pc = "failed" /\ r.response = 500
               /\ r.report = EmptyReport /\ ~DiffOk(r)
               /\ r.mail = "none" /\ r.body = <<>>
               /\ store = Replay(r.pre, r.ops)
               /\ r.err = "scan" => r.ops = <<>>
               /\ r.err = "put"
                      => /\ r.i <= Len(r.events)
                         /\ KeyOf(r.events[r.i]) \notin ScannedKeys(r)
                         /\ r.ops = PutsOf(r.events, r.i - 1, ScannedKeys(r))
               /\ r.err = "delete"
                      => /\ r.j <= Len(r.existing)
                         /\ r.existing[r.j].eventKey \notin EventKeys(r.events)
                         /\ r.ops = PutsOf(r.events, Len(r.events), ScannedKeys(r))
                                \o DeletesOf(r.existing, r.j - 1,
                                             EventKeys(r.events))

\* A delete failed after a put and a delete of the same run were applied.
C7_Witness ==
    \E p \in Procs :
        /\ run[p].pc = "failed" /\ run[p].err = "delete"
        /\ Len(run[p].ops) = 2
        /\ run[p].ops[1][1] = "put" /\ run[p].ops[2][1] = "delete"
        /\ store # run[p].pre

\* C8: getAllEvents returns every row of the table, however many rows there
\* are and however many pages the store needs for them.
C8_FullScan ==
    \A p \in Procs :
        p \in active /\ run[p].pc = "puts"
            => SeqToSet(run[p].existing) = run[p].pre

\* C9: cleanText(cleanText(s)) = cleanText(s) for every string s.
C9_NormalizerIdempotent ==
    Len(output) = 2 => output[2] = output[1]

\* C10: every Event that extractEvents returns has a non-empty description.
C10_DescriptionNonEmpty ==
    output # <<>> => \A e \in SeqToSet(output[1]) : e.desc # <<>>

\* C11: every finished run of HandleRequest has returned a Response, with
\* status 200 when nothing failed and with status 500 when a phase failed;
\* no failure, that of getting the SMTP credentials included, ends the
\* process without a Response.
C11_BinaryOutcome ==
    \A p \in Procs :
        Finished(run[p])
            => /\ run[p].response \in {200, 500}
               /\ (run[p].response = 200) <=> (run[p].err = "none")

\* C12: with now taken once in the run and the cutoff 60 days after it, an
\* extracted event is in UpcomingEvents exactly when its date is after now
\* and before the cutoff: an event dated now or dated the cutoff is left
\* out, an event one second inside either end is taken in.
C12_UpcomingBoundary ==
    \A p \in Procs :
        Diffed(p) =>
            LET now      == run[p].now
                end      == now + 60 * 24 * 3600
                upcoming == SeqToSet(run[p].report.UpcomingEvents)
            IN  \A e \in SeqToSet(run[p].events) :
                    LET t == Instant(e.date)
                    IN  /\ (e \in upcoming) <=> (now < t /\ t < end)
                        /\ t \in {now, end} => e \notin upcoming
                        /\ t \in {now + 1, end - 1} => e \in upcoming

\* A run at the midnight that starts Date1 with events dated Date1 (now),
\* Date2 (the cutoff) and Date3: only the last one is upcoming.
C12_Witness ==
    \E p \in Procs :
        /\ Diffed(p)
        /\ run[p].now = Instant(ParseDate(Date1).date)
        /\ {e.date : e \in SeqToSet(run[p].events)}
               = {ParseDate(Date1).date, ParseDate(Date2).date,
                  ParseDate(Date3).date}
        /\ {e.date : e \in SeqToSet(run[p].report.UpcomingEvents)}
               = {ParseDate(Date3).date}

\* How many times x occurs in the sequence q.
Count(q, x) == Cardinality({k \in 1..Len(q) : q[k] = x})

\* C13: in the report processEvents returns, UpcomingEvents holds exactly
\* the extracted events whose date is in the window, each as often as it was
\* extracted and whether it was added or not, holds no deleted event, and is
\* in order of non-decreasing date.
C13_UpcomingContents ==
    \A p \in Procs :
        Diffed(p) =>
            LET r        == run[p]
                upcoming == r.report.UpcomingEvents
                inWindow(e) == /\ r.now < Instant(e.date)
                               /\ Instant(e.date) < r.now + 60 * 24 * 3600
            IN  /\ \A e \in SeqToSet(r.events) \cup SeqToSet(upcoming) :
                       Count(upcoming, e)
                           = IF inWindow(e) THEN Count(r.events, e) ELSE 0
                /\ \A d \in SeqToSet(r.report.DeletedEvents) :
                       d \notin SeqToSet(upcoming)
                /\ \A k \in 1..(Len(upcoming) - 1) :
                       Instant(upcoming[k].date) <= Instant(upcoming[k + 1].date)

\* A report with two upcoming events that were extracted later date first,
\* the earlier of them stored before and so not added, and with a deletion.
C13_Witness ==
    \E p \in Procs :
        LET r == run[p] IN
        /\ Diffed(p)
        /\ Len(r.events) = 2 /\ Len(r.report.UpcomingEvents) = 2
        /\ Instant(r.events[1].date) > Instant(r.events[2].date)
        /\ r.report.UpcomingEvents = <<r.events[2], r.events[1]>>
        /\ r.events[2] \notin SeqToSet(r.report.AddedEvents)
        /\ r.report.DeletedEvents # <<>>

\* The events among the first n of events whose key is not scanned, in order.
RECURSIVE NewEvents(_, _, _)
NewEvents(events, n, scanned) ==
    IF n = 0 THEN <<>>
    ELSE NewEvents(events, n - 1, scanned)
             \o (IF KeyOf(events[n]) \in scanned THEN <<>> ELSE <<events[n]>>)

\* The stored date and description of the rows among the first m scanned
\* whose key is not derived from an extracted event, in order.
RECURSIVE GoneEvents(_, _, _)
GoneEvents(existing, m, current) ==
    IF m = 0 THEN <<>>
    ELSE GoneEvents(existing, m - 1, current)
             \o (IF existing[m].eventKey \in current THEN <<>>
                 ELSE <<[date |-> existing[m].eventDate,
                         desc |-> existing[m].eventDesc]>>)

\* C14: in the report processEvents returns, AddedEvents is the extracted
\* events whose key is not in the scanned snapshot, in extraction order,
\* DeletedEvents is the stored date and description of the scanned rows
\* whose key no extracted event has, in scan order, and the two counts are
\* the lengths of the two lists.
C14_AddedAndDeletedLists ==
    \A p \in Procs :
        Diffed(p) =>
            LET r == run[p] IN
            /\ r.report.AddedEvents
                   = NewEvents(r.events, Len(r.events), ScannedKeys(r))
            /\ r.report.DeletedEvents
                   = GoneEvents(r.existing, Len(r.existing), EventKeys(r.events))
            /\ r.report.AddedCount = Len(r.report.AddedEvents)
            /\ r.report.DeletedCount = Len(r.report.DeletedEvents)

\* A report with two added events and two deleted ones.
C14_Witness ==
    \E p \in Procs :
        /\ Diffed(p)
        /\ run[p].report.AddedCount = 2 /\ run[p].report.DeletedCount = 2
        /\ run[p].report.AddedEvents[1] # run[p].report.AddedEvents[2]
        /\ Len(run[p].ops) = 4

\* C15: when sending the mail fails, every put and every delete of the run
\* has been applied already and the run answers with a failure; the run
\* after it, on the same extracted events, reports nothing added and nothing
\* deleted and makes no put and no delete.
C15_MailFailureAfterMutations ==
    \A p \in Procs :
        LET r == run[p] IN
        /\ r.err = "mail"
               => /\ r.pc = "failed" /\ r.response = 500
                  /\ r.ops = PutsOf(r.events, Len(r.events), ScannedKeys(r))
                         \o DeletesOf(r.existing, Len(r.existing),
                                      EventKeys(r.events))
                  /\ store = Replay(r.pre, r.ops)
        /\ Diffed(p) /\ r.prior = "mail"
               => /\ r.report.AddedCount = 0
                  /\ r.report.DeletedCount = 0
                  /\ r.ops = <<>>

\* C16: the body of a mail that was sent has the section of changed entries
\* exactly when AddedCount > 0 and always, last, the section of the next 60
\* days; the first lists the added events in the order of AddedEvents, the
\* second the upcoming events in the order of UpcomingEvents, each with its
\* date as DD.MM.YYYY and its description; no deleted event is listed; on a
\* Friday with nothing added and two events deleted the mail goes out with
\* the upcoming section alone.
C16_Rendering ==
    \A p \in Procs :
        LET r       == run[p]
            body    == r.body
            item(e) == [bold |-> Digits(e.date.day, 2) \o <<".">>
                                     \o Digits(e.date.month, 2) \o <<".">>
                                     \o Digits(e.date.year, 4),
                        text |-> e.desc]
            items(evs) == [k \in 1..Len(evs) |-> item(evs[k])]
        IN  /\ r.mail = "sent"
                => /\ Len(body) = (IF r.report.AddedCount > 0 THEN 2 ELSE 1)
                   /\ body[Len(body)]
                          = [title |-> "upcoming",
                             items |-> items(r.report.UpcomingEvents)]
                   /\ r.report.AddedCount > 0
                          => body[1] = [title |-> "changed",
                                        items |-> items(r.report.AddedEvents)]
                   /\ \A k \in 1..Len(body), d \in SeqToSet(r.report.DeletedEvents) :
                          item(d) \notin SeqToSet(body[k].items)
            /\ /\ r.pc = "done" /\ r.friday
               /\ r.report.AddedCount = 0 /\ r.report.DeletedCount = 2
               => r.mail = "sent" /\ Len(body) = 1 /\ body[1].title = "upcoming"

\* A Friday run that deleted two rows, added nothing and sent the mail, and
\* a body with the upcoming section alone.
C16_Witness ==
    \E p \in Procs :
        /\ run[p].pc = "done" /\ run[p].friday /\ run[p].mail = "sent"
        /\ run[p].report.AddedCount = 0 /\ run[p].report.DeletedCount = 2
        /\ Len(run[p].body) = 1 /\ run[p].body[1].title = "upcoming"

\* C17: when every extracted event is stored as a row already and every
\* stored key is the key of an extracted event, whatever the order of the
\* events, the run reports nothing added and nothing deleted and makes no
\* put and no delete.
C17_PositionIndependence ==
    \A p \in Procs :
        LET r == run[p] IN
        /\ Diffed(p)
        /\ \A e \in SeqToSet(r.events) : DynamoDBEvent(e) \in r.pre
        /\ Keys(r.pre) \subseteq EventKeys(r.events)
        => /\ r.report.AddedCount = 0
           /\ r.report.DeletedCount = 0
           /\ r.ops = <<>>

\* The nodes of the tree below and including n, in document order.
RECURSIVE PreOrder(_)
RECURSIVE PreOrderOfKids(_)
PreOrder(n) == <<n>> \o PreOrderOfKids(n.kids)
PreOrderOfKids(kids) ==
    IF kids = <<>> THEN <<>>
    ELSE PreOrder(Head(kids)) \o PreOrderOfKids(Tail(kids))

\* What is after the last dash of a label that has a dash.
LastSegment(label) ==
    LET k == CHOOSE i \in 1..Len(label) :
                 label[i] = "-" /\ \A j \in (i + 1)..Len(label) : label[j] # "-"
    IN  SubSeq(label, k + 1, Len(label))

\* The 8 characters are digits that read YYYYMMDD as a day of the calendar.
IsCalendarDate(seg) ==
    /\ \A i \in 1..8 : seg[i] \in {"0", "1", "2", "3", "4", "5", "6", "7", "8", "9"}
    /\ LET y == atoi(SubSeq(seg, 1, 4))
           m == atoi(SubSeq(seg, 5, 6))
           d == atoi(SubSeq(seg, 7, 8))
           leap == y % 4 = 0 /\ (y % 100 # 0 \/ y % 400 = 0)
       IN  /\ m \in 1..12
           /\ d >= 1
           /\ d <= (CASE m \in {4, 6, 9, 11} -> 30
                      [] m = 2 -> (IF leap THEN 29 ELSE 28)
                      [] OTHER -> 31)

\* The rule of the extractor, in the words of C18.
QualifiesByRule(n) ==
    /\ n.type = "element"
    /\ \E i \in 1..Len(n.attr) :
           n.attr[i].key = "class" /\ n.attr[i].val = <<"e", "v", "e", "n", "t", "s">>
    /\ \E i \in 1..Len(n.attr) :
           /\ n.attr[i].key = "aria-labelledby"
           /\ n.attr[i].val # <<>>
           /\ \E k \in 1..Len(n.attr[i].val) : n.attr[i].val[k] = "-"
           /\ Len(LastSegment(n.attr[i].val)) = 8
           /\ IsCalendarDate(LastSegment(n.attr[i].val))

\* The nodes among the first k of nodes that qualify, in order.
RECURSIVE Qualifying(_, _)
Qualifying(nodes, k) ==
    IF k = 0 THEN <<>>
    ELSE Qualifying(nodes, k - 1)
             \o (IF QualifiesByRule(nodes[k]) THEN <<nodes[k]>> ELSE <<>>)

\* C18: a node yields an Event exactly when it is an element with the
\* attribute class of value "events" and a non-empty attribute
\* aria-labelledby that has a dash and whose part after the last dash is 8
\* characters that are a calendar date YYYYMMDD; the Event has that date;
\* no other node yields anything.
C18_QualifyingRule ==
    output # <<>> =>
        LET nodes == PreOrder(input)
            q     == Qualifying(nodes, Len(nodes))
        IN  /\ \A k \in 1..Len(nodes) :
                   (EventOfNode(nodes[k]) # <<>>) <=> QualifiesByRule(nodes[k])
            /\ Len(output[1]) = Len(q)
            /\ \A k \in 1..Len(q) :
                   FormatDate(output[1][k].date)
                       = LastSegment(AriaLabel(q[k].attr))

\* A document with two elements of class "events", one labelled with a
\* calendar date and one with 30 February: one Event comes out.
C18_Witness ==
    /\ output # <<>> /\ Len(output[1]) = 1
    /\ Len(input.kids) = 2
    /\ \A k \in 1..2 : HasEventsClass(input.kids[k].attr)
    /\ \E k \in 1..2 : AriaLabel(input.kids[k].attr) = Label(BadDate)

\* What the nodes of a sequence yield, one after the other.
RECURSIVE EventsOfNodes(_)
EventsOfNodes(nodes) ==
    IF nodes = <<>> THEN <<>>
    ELSE EventOfNode(Head(nodes)) \o EventsOfNodes(Tail(nodes))

\* The data of the text nodes of a sequence of nodes, joined in order.
RECURSIVE TextOfNodes(_)
TextOfNodes(nodes) ==
    IF nodes = <<>> THEN <<>>
    ELSE (IF Head(nodes).type = "text" THEN Head(nodes).data ELSE <<>>)
             \o TextOfNodes(Tail(nodes))

\* C19: extractEvents emits what each node of the tree yields, every node
\* taken once and in document order; of two qualifying nodes, one inside the
\* other, both are emitted, the outer one first, and the description of the
\* outer one is cleanText of all the text below it in document order, the
\* text of the inner node included.
C19_DocumentOrder ==
    output # <<>> =>
        /\ output[1] = EventsOfNodes(PreOrder(input))
        /\ \A k \in 1..Len(input.kids) :
               LET outer == input.kids[k] IN
               \A m \in 1..Len(outer.kids) :
                   LET inner == outer.kids[m] IN
                   QualifiesByRule(outer) /\ QualifiesByRule(inner)
                       => \E a, b \in 1..Len(output[1]) :
                              /\ a < b
                              /\ FormatDate(output[1][a].date)
                                     = LastSegment(AriaLabel(outer.attr))
                              /\ output[1][a].desc
                                     = cleanText(TextOfNodes(PreOrder(outer)))
                              /\ FormatDate(output[1][b].date)
                                     = LastSegment(AriaLabel(inner.attr))
                              /\ output[1][b].desc
                                     = cleanText(TextOfNodes(PreOrder(inner)))

\* A qualifying node dated Date2 with the text "a" around a qualifying node
\* dated Date1 with the text "a": two Events, the outer one first with the
\* description "aa".
C19_Witness ==
    /\ output # <<>> /\ Len(output[1]) = 2
    /\ Len(input.kids) = 1 /\ Len(input.kids[1].kids) = 2
    /\ output[1][1] = [date |-> ParseDate(Date2).date, desc |-> <<"a", "a">>]
    /\ output[1][2] = [date |-> ParseDate(Date1).date, desc |-> <<"a">>]

\* C20: processEvents puts only keys that are not in the scanned snapshot
\* and deletes only keys that are in it and that no extracted event has; a
\* scanned row whose key an extracted event has is neither put again nor
\* deleted, and stays in the table as it was scanned.
C20_Frame ==
    \A p \in Procs :
        LET r == run[p] IN
        /\ \A o \in SeqToSet(r.ops) :
               /\ o[1] = "put" => o[2].eventKey \notin ScannedKeys(r)
               /\ o[1] = "delete" => /\ o[2] \in ScannedKeys(r)
                                     /\ o[2] \notin EventKeys(r.events)
        /\ \A row \in SeqToSet(r.existing) :
               row.eventKey \in EventKeys(r.events)
                   => /\ row \in store
                      /\ \A o \in SeqToSet(r.ops) :
                             /\ o[1] = "put" => o[2].eventKey # row.eventKey
                             /\ o[1] = "delete" => o[2] # row.eventKey

\* A finished diff that put one row, deleted one scanned row and left the
\* other scanned row, whose key was extracted again, as it was.
C20_Witness ==
    \E p \in Procs :
        /\ Diffed(p)
        /\ Len(run[p].existing) = 2 /\ Len(run[p].ops) = 2
        /\ \E o \in SeqToSet(run[p].ops) : o[1] = "put"
        /\ \E o \in SeqToSet(run[p].ops) : o[1] = "delete"
        /\ \E row \in SeqToSet(run[p].existing) :
               row.eventKey \in EventKeys(run[p].events) /\ row \in store

C22_ParseFailureAndSkippedNodes ==
    \A p \in Procs :
        LET r == run[p] IN
        /\ r.err = "parse"
               => /\ r.pc = "failed" /\ r.response = 500
                  /\ r.existing = <<>> /\ r.now = 0 /\ r.ops = <<>>
        /\ r.skipped
               => /\ r.err \notin {"config", "fetch", "read", "parse"}
                  /\ r.pc # "idle"
                  /\ [events |-> r.events, skipped |-> TRUE] \in PageResults
                  /\ Finished(r) /\ r.err = "none" => r.response = 200

\* A run on a page with a node it skipped that went through the diff, put a
\* row and ended with status 200.
C22_Witness ==
    \E p \in Procs :
        /\ run[p].skipped /\ run[p].pc = "done" /\ run[p].response = 200
        /\ run[p].events # <<>> /\ run[p].ops # <<>>

\* No invocation is in a failed phase: no configuration, fetch, store or
\* transport failure shows.
NoFault == \A p \in Procs : run[p].err = "none"

\* C23: every event that a run persists as newly added is eventually listed
\* in the section of changed entries of a sent email, provided invocations
\* keep being triggered and failures eventually stop, also when the run
\* that persisted it aborted later or failed to send its email.
C23_EventualNotification ==
    (<>[]NoFault) => \A e \in Followed : (e \in owed) ~> (e \notin owed)

\* C24: in a run every put is issued before the first delete; so when a run
\* has aborted on a store failure and a row was deleted, every addition of
\* the run is persisted; and when the table held a row for a date and the
\* extraction has an event for that date with another description, the
\* table holds the old row or the new one (or both) at every moment.
C24_PutsBeforeDeletes ==
    \A p \in Procs :
        LET r   == run[p]
            ops == r.ops
        IN  /\ \A i, j \in 1..Len(ops) :
                   ops[i][1] = "delete" /\ ops[j][1] = "put" => j < i
            /\ /\ r.err \in {"put", "delete"}
               /\ \E i \in 1..Len(ops) : ops[i][1] = "delete"
               => \A e \in SeqToSet(r.events) :
                      KeyOf(e) \notin ScannedKeys(r)
                          => /\ <<"put", DynamoDBEvent(e)>> \in SeqToSet(ops)
                             /\ KeyOf(e) \in Keys(store)
            /\ \A old \in r.pre, new \in SeqToSet(r.events) :
                   old.eventDate = new.date /\ old.eventDesc # new.desc
                       => \/ old.eventKey \in Keys(store)
                          \/ KeyOf(new) \in Keys(store)

\* A run replaced the row of a date by a row with another description and
\* then aborted on a failing delete.
C24_Witness ==
    \E p \in Procs :
        LET r == run[p] IN
        /\ r.pc = "failed" /\ r.err = "delete"
        /\ Len(r.ops) = 2
        /\ r.ops[1][1] = "put" /\ r.ops[2][1] = "delete"
        /\ \E old \in r.pre, new \in SeqToSet(r.events) :
               /\ old.eventDate = new.date /\ old.eventDesc # new.desc
               /\ old.eventKey \notin Keys(store)
               /\ KeyOf(new) \in Keys(store)

\* The day of an instant, counted from 1970-01-01 (UTC).
DayOf(t) == t \div SecondsPerDay

\* C25: an extracted event whose date is the date of the run is never in
\* UpcomingEvents, at whatever time of that day the run takes now.
C25_TodayIsNotUpcoming ==
    \A p \in Procs :
        \A e \in SeqToSet(run[p].report.UpcomingEvents) :
            DaysFromCivil(e.date) # DayOf(run[p].now)

\* A run in the middle of Date1 diffed an event dated Date1 and a later one:
\* the later one is upcoming, the one of the day is not.
C25_Witness ==
    \E p \in Procs :
        /\ Diffed(p)
        /\ run[p].now = Instant(ParseDate(Date1).date) + SecondsPerDay \div 2
        /\ \E e \in SeqToSet(run[p].events) :
               /\ DaysFromCivil(e.date) = DayOf(run[p].now)
               /\ e \notin SeqToSet(run[p].report.UpcomingEvents)
        /\ run[p].report.UpcomingEvents # <<>>

\* The keys that the scans of the invocations found in the table or that
\* their extractions derive.
JustifiedKeys ==
    UNION {Keys(run[p].pre) \cup EventKeys(run[p].events) : p \in Procs}

\* The keys that the extraction of every invocation derives.
CommonKeys ==
    {k \in JustifiedKeys : \A p \in Procs : k \in EventKeys(run[p].events)}

====
